---- MODULE Spec2Model ----
(***************************************************************************)
(* Model of shapash/explainer/consistency.py: consistency_plot and the     *)
(* functions it drives (calculate_all_distances, calculate_pairwise_       *)
(* distances, calculate_mean_distances, find_examples).                    *)
(*                                                                         *)
(* Floating point numbers are modelled as fixed point numbers with Scale   *)
(* units per 1.0, plus the value NaN.  A float is a record                 *)
(* [nan |-> BOOLEAN, val |-> Int]; NaN compares unequal to everything,     *)
(* itself included, and is neither smaller nor greater than anything.      *)
(*                                                                         *)
(* all_comparisons is an array of objects (it is built from a row of None),*)
(* so argmin compares its elements with <: a NaN is never found smaller    *)
(* and, when it comes first, nothing is found smaller than it.             *)
(***************************************************************************)
EXTENDS Integers, Sequences, FiniteSets

\* ---------------------------------------------------------------- bounds
MaxM == 3
MaxN == 2
Scale == 10

\* ------------------------------------------------------ program constants
NumTargets == 5

\* ------------------------------------------------------------ arithmetic
Abs(x) == IF x < 0 THEN -x ELSE x

\* division rounding toward zero
Quot(a, b) == IF a >= 0 THEN a \div b ELSE -((-a) \div b)

RECURSIVE SqrtFrom(_, _)
SqrtFrom(n, r) == IF (r + 1) * (r + 1) > n THEN r ELSE SqrtFrom(n, r + 1)

ISqrt(n) == SqrtFrom(n, 0)

NaN == [nan |-> TRUE, val |-> 0]

Fl(v) == [nan |-> FALSE, val |-> v]

\* IEEE comparisons: every comparison with a NaN is false
FEq(a, b) == ~a.nan /\ ~b.nan /\ a.val = b.val

FLt(a, b) == ~a.nan /\ ~b.nan /\ a.val < b.val

RECURSIVE SeqSum(_)
SeqSum(s) == IF s = <<>> THEN 0 ELSE Head(s) + SeqSum(Tail(s))

HasNaN(s) == \E k \in 1..Len(s) : s[k].nan

\* np.linalg.norm(x, ord=2) of a vector of floats
Norm(v) ==
    IF HasNaN(v) THEN NaN
    ELSE Fl(ISqrt(SeqSum([k \in 1..Len(v) |-> v[k].val * v[k].val])))

\* a raw contribution vector (integers) as a vector of floats
AsFloats(x) == [k \in 1..Len(x) |-> Fl(x[k] * Scale)]

\* x / norm, componentwise; 0/0 is NaN (a zero norm means every component is 0)
DivideByNorm(v, n) ==
    [k \in 1..Len(v) |->
        IF v[k].nan \/ n.nan \/ n.val = 0 THEN NaN
        ELSE Fl(Quot(v[k].val * Scale, n.val))]

\* weights[index] / np.linalg.norm(weights[index], ord=2, axis=1)[:, np.newaxis], one row
NormalizeRow(x) == DivideByNorm(AsFloats(x), Norm(AsFloats(x)))

\* u - v, componentwise
VecSub(u, v) ==
    [k \in 1..Len(u) |->
        IF u[k].nan \/ v[k].nan THEN NaN ELSE Fl(u[k].val - v[k].val)]

\* mutant of Mean: np.sum in place of np.mean
MeanAsSum(ds) ==
    IF Len(ds) = 0 \/ HasNaN(ds) THEN NaN
    ELSE Fl(SeqSum([k \in 1..Len(ds) |-> ds[k].val]))

\* np.mean of a 1-d array of floats
Mean(ds) ==
    IF Len(ds) = 0 \/ HasNaN(ds) THEN NaN
    ELSE Fl(SeqSum([k \in 1..Len(ds) |-> ds[k].val]) \div Len(ds))

\* ---------------------------------------------------------------- inputs
\* the contribution vectors the tables are built from
VecCycle == << <<1, 0>>, <<2, 1>>, <<1, 1>>, <<0, 1>>, <<-1, 0>>, <<0, 0>> >>

\* a DataFrame of n rows: n consecutive vectors of the cycle, from offset o
Window(o, n) ==
    [df |-> TRUE,
     values |-> [r \in 1..n |-> VecCycle[((o + r - 2) % Len(VecCycle)) + 1]]]

NotDF == [df |-> FALSE, values |-> <<>>]

\* a DataFrame with one row and a single column
OneColumn == [df |-> TRUE, values |-> << <<1>> >>]

AllTables ==
    {NotDF, OneColumn}
    \cup {Window(o, n) : o \in 1..Len(VecCycle), n \in 1..MaxN}

\* the dictionary, as the list of its values in key order; <<>> is None or {}
AllContributions == UNION {[1..m -> AllTables] : m \in 0..MaxM}

Names == <<"shap", "acv", "lime", "tree", "kernel">>

\* the row indexes 0 .. k-1, in order
Prefix(k) == [x \in 1..k |-> x - 1]

Reverse(s) == [x \in 1..Len(s) |-> s[Len(s) + 1 - x]]

\* None, a value that is not a list, or a list of row indexes (0-based): the
\* first k rows, in ascending or in descending order
AllSelections ==
    {[kind |-> "none", items |-> <<>>], [kind |-> "other", items |-> <<>>]}
    \cup {[kind |-> "list", items |-> Prefix(k)] : k \in 0..MaxN}
    \cup {[kind |-> "list", items |-> Reverse(Prefix(k))] : k \in 0..MaxN}

\* ----------------------------------------------------------------- state
VARIABLES
    contributions,   \* argument of consistency_plot
    selection,       \* argument of consistency_plot
    pc,              \* position in consistency_plot
    outcome,         \* "running", "returned" or the exception raised
    methods,         \* list of method names
    weights,         \* list of arrays, after sampling
    mean_distances,  \* DataFrame methods x methods
    all_comparisons, \* rows [index_i, index_j, instance, l2]
    pair,            \* position in itertools.combinations
    targets,         \* np.linspace(...), as numerators over NumTargets - 1
    step,            \* position in targets
    closest_l2, row, contrib_1, contrib_2,   \* locals of the find_examples loop
    method_1, method_2, l2                    \* result lists of find_examples

vars == <<contributions, selection, pc, outcome, methods, weights,
          mean_distances, all_comparisons, pair, targets, step,
          closest_l2, row, contrib_1, contrib_2, method_1, method_2, l2>>

inputs == <<contributions, selection>>
distVars == <<mean_distances, all_comparisons, pair>>
exVars == <<targets, step, closest_l2, row, contrib_1, contrib_2,
            method_1, method_2, l2>>

Init ==
    /\ contributions \in AllContributions
    /\ selection \in AllSelections
    /\ pc = "start"
    /\ outcome = "running"
    /\ methods = <<"shap", "acv">>
    /\ weights = <<>>
    /\ mean_distances = <<>>
    /\ all_comparisons = <<>>
    /\ pair = 0
    /\ targets = <<>>
    /\ step = 0
    /\ closest_l2 = NaN
    /\ row = <<>>
    /\ contrib_1 = <<>>
    /\ contrib_2 = <<>>
    /\ method_1 = <<>>
    /\ method_2 = <<>>
    /\ l2 = <<>>

\* ------------------------------------------------------------ exceptions
NotDataFrames == "ValueError: Contributions must be pandas DataFrames"
NotSameShape == "ValueError: Contributions must be of same shape"
SinglePoint == "ValueError: Selection must include multiple points"
NotAList == "ValueError: Parameter selection must be a list"
UnboundWeights == "UnboundLocalError: local variable 'weights' referenced before assignment"
IndexOutOfBounds == "IndexError: index is out of bounds"
EmptyArgmin == "ValueError: attempt to get argmin of an empty sequence"
ProjectionFailed == "ValueError: Input contains NaN"

\* the errors consistency_plot raises itself
ValidationErrors == {NotDataFrames, NotSameShape, SinglePoint, NotAList}

\* --------------------------------------------------------- consistency_plot
Shape(x) == <<Len(x.values), Len(x.values[1])>>

\* weight[selection] for a list of row indexes
TakeRows(weight, items) == [k \in 1..Len(items) |-> weight[items[k] + 1]]

InRange(weight, items) == \A k \in 1..Len(items) : items[k] < Len(weight)

\* mutant of SameShape: only the number of rows is compared
SameRowCount(ws) == \A k \in 1..Len(ws) : Shape(ws[k])[1] = Shape(ws[1])[1]

\* mutant of IsSinglePoint: the test is for an empty list
IsEmptyList(items) == Len(items) = 0

\* mutant of Raise: the error is recorded and the run goes on
RaiseAndContinue(e) ==
    /\ pc' = "validated"
    /\ outcome' = e

\* line 30
AllDataFrames(ws) == \A k \in 1..Len(ws) : ws[k].df

\* line 32
SameShape(ws) == \A k \in 1..Len(ws) : Shape(ws[k]) = Shape(ws[1])

\* line 41
IsSinglePoint(items) == Len(items) = 1

Raise(e) ==
    /\ pc' = "failed"
    /\ outcome' = e

\* lines 22-46: read the dictionary, validate, sample
Validate ==
    /\ pc = "start"
    /\ IF Len(contributions) = 0
       THEN /\ Raise(UnboundWeights)
            /\ UNCHANGED <<methods, weights>>
       ELSE /\ methods' = [k \in 1..Len(contributions) |-> Names[k]]
            /\ IF ~ AllDataFrames(contributions)
               THEN Raise(NotDataFrames) /\ UNCHANGED weights
               ELSE IF ~ SameShape(contributions)
               THEN Raise(NotSameShape) /\ UNCHANGED weights
               ELSE LET values == [k \in 1..Len(contributions) |->
                                       contributions[k].values]
                    IN  IF selection.kind = "none"
                        THEN /\ weights' = values
                             /\ pc' = "validated"
                             /\ UNCHANGED outcome
                        ELSE IF selection.kind = "list"
                        THEN IF IsSinglePoint(selection.items)
                             THEN Raise(SinglePoint) /\ UNCHANGED weights
                             ELSE IF ~ InRange(values[1], selection.items)
                             THEN Raise(IndexOutOfBounds) /\ UNCHANGED weights
                             ELSE /\ weights' =
                                       [k \in 1..Len(values) |->
                                           TakeRows(values[k], selection.items)]
                                  /\ pc' = "validated"
                                  /\ UNCHANGED outcome
                        ELSE Raise(NotAList) /\ UNCHANGED weights
    /\ UNCHANGED <<inputs, distVars, exVars>>

\* -------------------------------------------------- calculate_all_distances
RECURSIVE CombFrom(_, _, _)
CombFrom(i, j, m) ==
    IF i >= m - 1 THEN <<>>
    ELSE IF j >= m THEN CombFrom(i + 1, i + 2, m)
    ELSE <<(<<i, j>>)>> \o CombFrom(i, j + 1, m)

\* mutant of Combinations: itertools.permutations(range(m), 2)
Permutations(m) ==
    [p \in 1..(m * (m - 1)) |->
        LET i == (p - 1) \div (m - 1)
            jj == (p - 1) % (m - 1)
        IN  <<i, IF jj < i THEN jj ELSE jj + 1>>]

\* itertools.combinations(range(m), 2), 0-based
Combinations(m) == CombFrom(0, 1, m)

NoneRow == [none |-> TRUE, index_i |-> 0, index_j |-> 0, instance |-> 0, l2 |-> NaN]

\* lines 71-75
StartDistances ==
    /\ pc = "validated"
    /\ mean_distances' = [a \in {methods[k] : k \in 1..Len(methods)} |->
                            [b \in {methods[k] : k \in 1..Len(methods)} |-> Fl(0)]]
    /\ all_comparisons' = <<NoneRow>>
    /\ pair' = 1
    /\ pc' = "pairs"
    /\ UNCHANGED <<inputs, outcome, methods, weights, exVars>>

\* lines 106-109: the distance of every instance for one pair of methods
L2Dist(w, index_i, index_j) ==
    [r \in 1..Len(w[index_i + 1]) |->
        Norm(VecSub(NormalizeRow(w[index_i + 1][r]),
                    NormalizeRow(w[index_j + 1][r])))]

\* lines 111-113
PairwiseComparison(index_i, index_j, l2_dist) ==
    [r \in 1..Len(l2_dist) |->
        [none |-> FALSE, index_i |-> index_i, index_j |-> index_j,
         instance |-> r - 1, l2 |-> l2_dist[r]]]

\* mutant of CalculateMeanDistances: only [index_i, index_j] is written
MeanDistancesOneWay(md, index_i, index_j, l2_dist) ==
    [md EXCEPT ![methods[index_i + 1]][methods[index_j + 1]] = Mean(l2_dist)]

\* lines 134-135
CalculateMeanDistances(md, index_i, index_j, l2_dist) ==
    LET a == methods[index_i + 1]
        b == methods[index_j + 1]
        first == [md EXCEPT ![a][b] = Mean(l2_dist)]
    IN  [first EXCEPT ![b][a] = Mean(l2_dist)]

\* lines 77-80: one iteration of the loop over the pairs
PairStep ==
    /\ pc = "pairs"
    /\ pair <= Len(Combinations(Len(methods)))
    /\ LET index_i == Combinations(Len(methods))[pair][1]
           index_j == Combinations(Len(methods))[pair][2]
           l2_dist == L2Dist(weights, index_i, index_j)
       IN  /\ mean_distances' =
                 CalculateMeanDistances(mean_distances, index_i, index_j, l2_dist)
           /\ all_comparisons' =
                 all_comparisons \o PairwiseComparison(index_i, index_j, l2_dist)
    /\ pair' = pair + 1
    /\ UNCHANGED <<inputs, pc, outcome, methods, weights, exVars>>

\* lines 82-84
ReturnDistances ==
    /\ pc = "pairs"
    /\ pair > Len(Combinations(Len(methods)))
    /\ all_comparisons' = Tail(all_comparisons)
    /\ pc' = "distances_done"
    /\ UNCHANGED <<inputs, outcome, methods, weights, mean_distances, pair, exVars>>

\* ------------------------------------------------------------ find_examples
Entries(md) == {md[a][b] : a \in DOMAIN md, b \in DOMAIN md}

\* mean_distances[mean_distances > 0].min().min(): NaN when nothing is positive
MinPositive(md) ==
    LET pos == {e \in Entries(md) : ~e.nan /\ e.val > 0}
    IN  IF pos = {} THEN NaN
        ELSE CHOOSE e \in pos : \A f \in pos : e.val <= f.val

\* mean_distances.max().max(): NaN entries are skipped
MaxEntry(md) ==
    LET num == {e \in Entries(md) : ~e.nan}
    IN  IF num = {} THEN NaN
        ELSE CHOOSE e \in num : \A f \in num : e.val >= f.val

\* mutant of Linspace: from stop down to start
LinspaceDescending(start, stop, num) ==
    [k \in 1..num |->
        IF k = num THEN (IF start.nan THEN NaN ELSE Fl(start.val * (num - 1)))
        ELSE IF start.nan \/ stop.nan THEN NaN
        ELSE Fl(stop.val * (num - 1) + (k - 1) * (start.val - stop.val))]

\* np.linspace(start, stop, num): start + k * (stop - start) / (num - 1), the last
\* one set to stop; the values are kept as numerators over num - 1
Linspace(start, stop, num) ==
    [k \in 1..num |->
        IF k = num THEN (IF stop.nan THEN NaN ELSE Fl(stop.val * (num - 1)))
        ELSE IF start.nan \/ stop.nan THEN NaN
        ELSE Fl(start.val * (num - 1) + (k - 1) * (stop.val - start.val))]

\* np.abs(d - i) for a distance d and a target i, as a numerator over num - 1
AbsDiff(d, i) ==
    IF d.nan \/ i.nan THEN NaN ELSE Fl(Abs(d.val * (NumTargets - 1) - i.val))

RECURSIVE ArgminFrom(_, _, _)
ArgminFrom(s, k, best) ==
    IF k > Len(s) THEN best
    ELSE ArgminFrom(s, k + 1, IF FLt(s[k], s[best]) THEN k ELSE best)

RECURSIVE ArgmaxFrom(_, _, _)
ArgmaxFrom(s, k, best) ==
    IF k > Len(s) THEN best
    ELSE ArgmaxFrom(s, k + 1, IF FLt(s[best], s[k]) THEN k ELSE best)

\* mutant of Argmin: argmax
Argmax(s) == ArgmaxFrom(s, 2, 1)

\* argmin of an array of objects: the first element no later one is smaller than
Argmin(s) == ArgminFrom(s, 2, 1)

\* all_comparisons[all_comparisons[:, -1] == closest]
RowsWith(ac, closest) ==
    LET Same(r) == FEq(r.l2, closest)
    IN  SelectSeq(ac, Same)

\* mutant of AlreadyUsed: no test for duplicates
NeverUsed(ls, closest) == FALSE

\* line 172: closest_l2 in l2
AlreadyUsed(ls, closest) == \E k \in 1..Len(ls) : FEq(ls[k], closest)

\* lines 49, 158-163
StartExamples ==
    /\ pc = "distances_done"
    /\ method_1' = <<>>
    /\ method_2' = <<>>
    /\ l2' = <<>>
    /\ targets' = Linspace(MinPositive(mean_distances), MaxEntry(mean_distances),
                           NumTargets)
    /\ step' = 1
    /\ pc' = "examples"
    /\ UNCHANGED <<inputs, outcome, methods, weights, distVars,
                   closest_l2, row, contrib_1, contrib_2>>

\* lines 165-176: one iteration of the loop over the targets
ExampleStep ==
    /\ pc = "examples"
    /\ step <= Len(targets)
    /\ LET column == [r \in 1..Len(all_comparisons) |-> all_comparisons[r].l2]
           diffs == [r \in 1..Len(column) |-> AbsDiff(column[r], targets[step])]
       IN  IF Len(column) = 0
           THEN /\ Raise(EmptyArgmin)
                /\ UNCHANGED <<step, closest_l2, row, contrib_1, contrib_2,
                               method_1, method_2, l2>>
           ELSE LET closest == column[Argmin(diffs)]
                    rows == RowsWith(all_comparisons, closest)
                IN  /\ closest_l2' = closest
                    /\ row' = rows
                    /\ IF rows = <<>>
                       THEN /\ Raise(IndexOutOfBounds)
                            /\ UNCHANGED <<step, contrib_1, contrib_2,
                                           method_1, method_2, l2>>
                       ELSE LET c1 == weights[rows[1].index_i + 1][rows[1].instance + 1]
                                c2 == weights[rows[1].index_j + 1][rows[1].instance + 1]
                            IN  /\ contrib_1' = c1
                                /\ contrib_2' = c2
                                /\ step' = step + 1
                                /\ UNCHANGED <<pc, outcome>>
                                /\ IF AlreadyUsed(l2, closest)
                                   THEN UNCHANGED <<method_1, method_2, l2>>
                                   ELSE /\ method_1' = Append(method_1, NormalizeRow(c1))
                                        /\ method_2' = Append(method_2, NormalizeRow(c2))
                                        /\ l2' = Append(l2, closest)
    /\ UNCHANGED <<inputs, methods, weights, distVars, targets>>

\* line 178
ReturnExamples ==
    /\ pc = "examples"
    /\ step > Len(targets)
    /\ pc' = "render"
    /\ UNCHANGED <<inputs, outcome, methods, weights, distVars, exVars>>

\* lines 51-52: the plots; the projection of a matrix with NaN entries may fail
Render ==
    /\ pc = "render"
    /\ \/ /\ pc' = "done"
          /\ outcome' = "returned"
       \/ /\ \E e \in Entries(mean_distances) : e.nan
          /\ Raise(ProjectionFailed)
    /\ UNCHANGED <<inputs, methods, weights, distVars, exVars>>

Next ==
    \/ Validate
    \/ StartDistances
    \/ PairStep
    \/ ReturnDistances
    \/ StartExamples
    \/ ExampleStep
    \/ ReturnExamples
    \/ Render

Spec == Init /\ [][Next]_vars

\* ================================================================ claims
NumMethods == Len(methods)

\* the name of the method with 0-based index i
Method(i) == methods[i + 1]

\* calculate_all_distances is running or has returned
DistancesStarted == mean_distances # <<>>

\* calculate_all_distances has returned
DistancesReturned == pc \in {"distances_done", "examples", "render", "done"}

\* two stored floats are the same value (a NaN stored twice counts as the same)
SameValue(a, b) == (a.nan /\ b.nan) \/ FEq(a, b)

\* the rows of the comparison list tagged with the pair (i, j)
Tagged(i, j) ==
    LET Is(r) == ~r.none /\ r.index_i = i /\ r.index_j = j
    IN  SelectSeq(all_comparisons, Is)

\* m is the mean of the distances ds, within one unit of the fixed point
IsMeanOf(m, ds) ==
    IF Len(ds) = 0 \/ HasNaN(ds) THEN m.nan
    ELSE /\ ~m.nan
         /\ m.val * Len(ds) <= SeqSum([k \in 1..Len(ds) |-> ds[k].val])
         /\ SeqSum([k \in 1..Len(ds) |-> ds[k].val]) < (m.val + 1) * Len(ds)

\* C1: at every point of calculate_all_distances, after each pair step and at
\* the end, mean_distances is symmetric and its diagonal is zero.
C1_SymmetricZeroDiagonal ==
    DistancesStarted =>
        \A a \in DOMAIN mean_distances :
            /\ FEq(mean_distances[a][a], Fl(0))
            /\ \A b \in DOMAIN mean_distances :
                   SameValue(mean_distances[a][b], mean_distances[b][a])

\* C1 witness: in the middle of the loop over three methods, one pair written
\* with a positive mean and the other pairs not yet written.
C1_Witness ==
    /\ pc = "pairs"
    /\ NumMethods = 3
    /\ pair = 2
    /\ FLt(Fl(0), mean_distances[Method(0)][Method(1)])
    /\ FLt(Fl(0), mean_distances[Method(1)][Method(0)])

\* C2: once calculate_all_distances has returned, the entry [i, j] of
\* mean_distances, for i < j, is the arithmetic mean of the distances of exactly
\* the rows of the comparison list tagged (i, j).
C2_MeanOfTaggedRecords ==
    DistancesReturned =>
        \A i \in 0..(NumMethods - 1) : \A j \in (i + 1)..(NumMethods - 1) :
            IsMeanOf(mean_distances[Method(i)][Method(j)],
                     [k \in 1..Len(Tagged(i, j)) |-> Tagged(i, j)[k].l2])

\* C2 witness: a returned run of three methods and two instances where the two
\* distances of a pair differ, so that the mean is neither of them.
C2_Witness ==
    /\ DistancesReturned
    /\ NumMethods = 3
    /\ Len(Tagged(1, 2)) = 2
    /\ ~HasNaN([k \in 1..2 |-> Tagged(1, 2)[k].l2])
    /\ Tagged(1, 2)[1].l2.val < mean_distances[Method(1)][Method(2)].val
    /\ mean_distances[Method(1)][Method(2)].val < Tagged(1, 2)[2].l2.val

\* the rows come in ascending order of (index_i, index_j, instance)
RowBefore(r, q) ==
    \/ r.index_i < q.index_i
    \/ r.index_i = q.index_i /\ r.index_j < q.index_j
    \/ r.index_i = q.index_i /\ r.index_j = q.index_j /\ r.instance < q.instance

\* C3: the returned comparison list has C(M,2)*N rows, none of them the
\* placeholder, exactly one per pair i < j and instance, in ascending order of
\* the pair and, within a pair, of the instance.
C3_OneRecordPerPairAndInstance ==
    DistancesReturned =>
        LET n == Len(weights[1])
        IN  /\ Len(all_comparisons) = ((NumMethods * (NumMethods - 1)) \div 2) * n
            /\ \A k \in 1..Len(all_comparisons) : ~all_comparisons[k].none
            /\ \A i \in 0..(NumMethods - 1) : \A j \in (i + 1)..(NumMethods - 1) :
                   \A x \in 0..(n - 1) :
                       Cardinality({k \in 1..Len(all_comparisons) :
                           /\ all_comparisons[k].index_i = i
                           /\ all_comparisons[k].index_j = j
                           /\ all_comparisons[k].instance = x}) = 1
            /\ \A k \in 1..(Len(all_comparisons) - 1) :
                   RowBefore(all_comparisons[k], all_comparisons[k + 1])

\* C3 witness: a returned run of three methods and two instances, six rows.
C3_Witness ==
    /\ DistancesReturned
    /\ NumMethods = 3
    /\ Len(weights[1]) = 2
    /\ Len(all_comparisons) = 6

\* the dictionary of contributions is supplied (neither None nor empty)
Supplied == Len(contributions) > 0

\* C4: with contributions supplied, a selection that is a list of one element,
\* or that is not a list, always ends consistency_plot in a validation error.
C4_SingleOrNonListSelectionFails ==
    (/\ Supplied
     /\ pc # "start"
     /\ \/ selection.kind = "other"
        \/ selection.kind = "list" /\ Len(selection.items) = 1)
    => (pc = "failed" /\ outcome \in ValidationErrors)

\* C4 witness: tables that pass the checks, a selection of one element, and the
\* error about it raised.
C4_Witness ==
    /\ pc = "failed"
    /\ selection.kind = "list"
    /\ Len(selection.items) = 1
    /\ Len(contributions) = 3
    /\ outcome = SinglePoint

\* two of the supplied DataFrames differ in shape
ShapesDiffer ==
    \E j, k \in 1..Len(contributions) :
        /\ contributions[j].df
        /\ contributions[k].df
        /\ Shape(contributions[j]) # Shape(contributions[k])

\* C5: tables that do not all have the same shape always end consistency_plot
\* in a validation error, whatever the selection: once the first step is taken,
\* either the run has failed with a validation error or no two shapes differ.
C5_ShapeMismatchFails ==
    pc # "start" =>
        \/ pc = "failed" /\ outcome \in ValidationErrors
        \/ ~ShapesDiffer

\* C5 witness: three DataFrames, the last one of another shape, a selection of
\* two rows, and the error about the shape raised.
C5_Witness ==
    /\ pc = "failed"
    /\ outcome = NotSameShape
    /\ Len(contributions) = 3
    /\ Shape(contributions[1]) = Shape(contributions[2])
    /\ Shape(contributions[3]) # Shape(contributions[1])
    /\ selection.kind = "list"
    /\ Len(selection.items) = 2

\* C6: a run that ended in a validation error has started no distance
\* computation, no example selection and no rendering, and holds no result.
C6_ValidationErrorBeforeComputation ==
    outcome \in ValidationErrors =>
        /\ pc = "failed"
        /\ weights = <<>>
        /\ mean_distances = <<>>
        /\ all_comparisons = <<>>
        /\ pair = 0
        /\ targets = <<>>
        /\ step = 0
        /\ method_1 = <<>>
        /\ method_2 = <<>>
        /\ l2 = <<>>

\* C6 witness: a run ended by the error about a selection that is not a list.
C6_Witness ==
    /\ pc = "failed"
    /\ outcome = NotAList
    /\ Len(contributions) = 2

\* C7: the lists of find_examples have the same length, at most 5, and no two
\* entries have the same distance.
C7_AtMostFiveDistinct ==
    /\ Len(l2) <= NumTargets
    /\ Len(method_1) = Len(l2)
    /\ Len(method_2) = Len(l2)
    /\ \A a, b \in 1..Len(l2) : a # b => ~SameValue(l2[a], l2[b])

\* C7 witness: find_examples returned fewer than 5 and more than 2 examples:
\* some target was skipped as a duplicate.
C7_Witness ==
    /\ pc = "render"
    /\ Len(l2) > 2
    /\ Len(l2) < NumTargets

\* C8: after each iteration of find_examples, closest_l2 is the distance of a
\* row nearest to the target; the row used carries that distance and the
\* vectors read are those of its two methods at its instance; and every entry
\* of the result is the distance of some row together with the normalized
\* vectors of that row.
C8_ExamplesBelongToMatchedRecord ==
    (pc = "examples" /\ step > 1) =>
        /\ \A k \in 1..Len(all_comparisons) :
               ~FLt(AbsDiff(all_comparisons[k].l2, targets[step - 1]),
                    AbsDiff(closest_l2, targets[step - 1]))
        /\ Len(row) >= 1
        /\ \E k \in 1..Len(all_comparisons) : all_comparisons[k] = row[1]
        /\ FEq(row[1].l2, closest_l2)
        /\ contrib_1 = weights[row[1].index_i + 1][row[1].instance + 1]
        /\ contrib_2 = weights[row[1].index_j + 1][row[1].instance + 1]
        /\ \E e \in 1..Len(l2) :
               /\ FEq(l2[e], closest_l2)
               /\ method_1[e] = NormalizeRow(contrib_1)
               /\ method_2[e] = NormalizeRow(contrib_2)
        /\ \A e \in 1..Len(l2) :
               \E k \in 1..Len(all_comparisons) :
                   /\ FEq(all_comparisons[k].l2, l2[e])
                   /\ method_1[e] = NormalizeRow(
                          weights[all_comparisons[k].index_i + 1]
                                 [all_comparisons[k].instance + 1])
                   /\ method_2[e] = NormalizeRow(
                          weights[all_comparisons[k].index_j + 1]
                                 [all_comparisons[k].instance + 1])

\* C8 witness: a target that is a number, matched to a distance that several
\* rows of different contribution vectors share, with two examples found.
C8_Witness ==
    /\ pc = "examples"
    /\ step > 1
    /\ ~targets[step - 1].nan
    /\ Len(row) >= 2
    /\ weights[row[2].index_i + 1][row[2].instance + 1] # contrib_1
    /\ Len(l2) >= 2

\* C9: calculate_all_distances is never started on tables that a selection
\* list cut down to fewer than 2 rows.
C9_SelectionLeavesTwoRows ==
    (DistancesStarted /\ selection.kind = "list") => Len(weights[1]) >= 2

NoUndefinedDistance ==
    \A k \in 1..Len(all_comparisons) : ~all_comparisons[k].l2.nan

\* C10: with no undefined distance and a positive mean distance, the distances
\* of the examples are strictly increasing along the list.
C10_DistancesIncrease ==
    (/\ pc \in {"examples", "render", "done"}
     /\ NoUndefinedDistance
     /\ ~MinPositive(mean_distances).nan)
    => \A a, b \in 1..Len(l2) : a < b => FLt(l2[a], l2[b])

\* C10 witness: a target at the same distance from two different recorded
\* distances, both nearest, in a run that has found three examples.
C10_Witness ==
    /\ pc = "examples"
    /\ step > 1
    /\ NoUndefinedDistance
    /\ ~MinPositive(mean_distances).nan
    /\ Len(l2) >= 3
    /\ \E k \in 1..Len(all_comparisons) :
           /\ ~FEq(all_comparisons[k].l2, closest_l2)
           /\ FEq(AbsDiff(all_comparisons[k].l2, targets[step - 1]),
                  AbsDiff(closest_l2, targets[step - 1]))

====
